---------------------------- MODULE Spec2Model ----------------------------
(***************************************************************************)
(* Verzugszinsrechner: the interest functions of scripts/calculations.js   *)
(* and the offline packager of offline-bundle/build-all-offline.js.        *)
(*                                                                         *)
(* Numbers.  JavaScript numbers are modelled as exact rationals over a     *)
(* fixed denominator:                                                      *)
(*   - an amount of money is an integer count of mills (1/1000 franc), so  *)
(*     that principals with a third decimal exist and rounding to the      *)
(*     Rappen (10 mills) is a real operation;                              *)
(*   - an annual rate is an integer number of percent;                     *)
(*   - a Date is the pair [day, ms]: the instant day * msPerDay + ms.      *)
(* Binary floating-point error is outside the model.                       *)
(***************************************************************************)
EXTENDS Integers, Sequences, FiniteSets, TLC

VARIABLES
    args,         \* the arguments of the calls under test
    resDefault,   \* what calculateDefaultInterest returned for args
    resCompound,  \* what calculateCompoundInterest returned for args
    resLater,     \* what calculateDefaultInterest returned for the later end date
    fs,           \* input files of the bundler: path -> "missing" | "empty" | "text"
    tpl,          \* the text of the template files: path -> sequence of tokens
    outDirExists, \* whether OUTPUT_DIR exists
    htmlFiles,    \* intermediate .html files in OUTPUT_DIR: <<tool id, lang>> -> document
    zipFiles,     \* archives in OUTPUT_DIR: <<tool id, lang>> -> [of, size]
    results,      \* buildAll's results list
    ti,           \* buildAll's outer loop: index into TOOLS
    li,           \* buildAll's inner loop: index into LANGUAGES
    html,         \* what the last call of buildOfflineHTML returned
    pc,           \* position of buildAll
    summary,      \* the counts of the "Build complete" line, once printed
    log,          \* console lines that name a pair: <<kind, tool id, lang>>
    written       \* the files this run's fs.writeFileSync has written

calcVars  == <<args, resDefault, resCompound, resLater>>
buildVars == <<fs, tpl, outDirExists, htmlFiles, zipFiles, results, ti, li, html, pc,
               summary, log, written>>
vars      == <<args, resDefault, resCompound, resLater,
               fs, tpl, outDirExists, htmlFiles, zipFiles, results, ti, li, html, pc,
               summary, log, written>>

---------------------------------------------------------------------------
(* Bounds of the input sets.                                               *)

\* Start and end dates are drawn from the days 0..MaxDay (plus fixed samples).
MaxDay == 2

(* Mills per franc and mills per Rappen: the denominators of the model.    *)
MillsPerFranc  == 10 * 100
MillsPerRappen == MillsPerFranc \div 100

---------------------------------------------------------------------------
(* scripts/calculations.js                                                 *)

msPerDay == 24 * 60 * 60 * 1000

\* Mutant of MathRound: truncation (Math.floor in place of Math.round).
MathRoundTruncates(n, d) == n \div d

\* Math.round(n / d) for d > 0: the nearest integer, a tie going towards
\* plus infinity (ECMAScript: floor(x + 0.5)).
MathRound(n, d) ==
    LET q == n \div d
        r == n % d
    IN  IF 2 * r >= d THEN q + 1 ELSE q

\* Mutant of MathFloor: Math.ceil in place of Math.floor.
MathFloorCeils(n, d) == -((-n) \div d)

\* Math.floor(n / d) for d > 0.
MathFloor(n, d) == n \div d

\* Date comparison startDate >= endDate (by instant).
DateGE(a, b) == a.day > b.day \/ (a.day = b.day /\ a.ms >= b.ms)

\* Mutant of TotalDays: the days are counted within the year (the difference
\* of the days of the year), so that a span of a full year counts as none.
TotalDaysWithinYear(s, e) ==
    ((e.day - s.day) % 365) + MathFloor(e.ms - s.ms, msPerDay)

\* Math.floor((endDate - startDate) / msPerDay).  The difference is
\* (e.day - s.day) * msPerDay + (e.ms - s.ms) with |e.ms - s.ms| < msPerDay,
\* so its floor quotient is the day difference plus the floor of the rest.
TotalDays(s, e) == (e.day - s.day) + MathFloor(e.ms - s.ms, msPerDay)

\* The default parameter interestRate = 5: rateArg is <<>> when the argument
\* is omitted and <<r>> when it is given.
InterestRate(rateArg) == IF rateArg = <<>> THEN 5 ELSE rateArg[1]

ErrPrincipal == [error |-> "Principal must be positive"]
ErrDates     == [error |-> "End date must be after start date"]

\* Lines 16-21 and 55-60: the validation both functions open with.  <<>> when
\* the inputs pass, <<result>> when the function returns an error result.
ValidateDefault(principal, startDate, endDate) ==
    IF principal <= 0 THEN <<ErrPrincipal>>
    ELSE IF DateGE(startDate, endDate) THEN <<ErrDates>>
    ELSE <<>>

\* Mutant of ValidateCompound: equal dates pass (> in place of >=).
ValidateCompoundStrict(principal, startDate, endDate) ==
    IF principal <= 0 THEN <<ErrPrincipal>>
    ELSE IF DateGE(startDate, endDate) /\ startDate /= endDate THEN <<ErrDates>>
    ELSE <<>>

ValidateCompound(principal, startDate, endDate) ==
    IF principal <= 0 THEN <<ErrPrincipal>>
    ELSE IF DateGE(startDate, endDate) THEN <<ErrDates>>
    ELSE <<>>

\* Lines 29-33.  principal in mills, the result in mills:
\*   interest * 100 = principal/1000 * interestRate/100/360 * totalDays * 100
\*                  = principal * interestRate * totalDays / 360000   (Rappen)
RoundedInterest(principal, interestRate, totalDays) ==
    MillsPerRappen * MathRound(principal * interestRate * totalDays,
                               360 * MillsPerFranc)

\* Mutant of RoundedTotal: the sum is returned unrounded.
RoundedTotalUnrounded(principal, roundedInterest) == principal + roundedInterest

\* Line 34: Math.round((principal + roundedInterest) * 100) / 100, in mills.
RoundedTotal(principal, roundedInterest) ==
    MillsPerRappen * MathRound(principal + roundedInterest, MillsPerRappen)

\* calculateDefaultInterest.  Amounts in mills.
calculateDefaultInterest(principal, startDate, endDate, rateArg) ==
    LET invalid == ValidateDefault(principal, startDate, endDate) IN
    IF invalid /= <<>> THEN invalid[1]
    ELSE
      LET interestRate    == InterestRate(rateArg)
          totalDays       == TotalDays(startDate, endDate)
          roundedInterest == RoundedInterest(principal, interestRate, totalDays)
          total           == RoundedTotal(principal, roundedInterest)
      IN  [principal    |-> principal,
           startDate    |-> startDate,
           endDate      |-> endDate,
           days         |-> totalDays,
           interestRate |-> interestRate,
           interest     |-> roundedInterest,
           total        |-> total,
           method       |-> "360-day year"]

RECURSIVE IntPow(_, _)
IntPow(b, n) == IF n = 0 THEN 1 ELSE b * IntPow(b, n - 1)

\* Math.pow(1 + interestRate / 100, years) for a whole number of years, as the
\* fraction num / den.
PowYears(interestRate, n) ==
    [num |-> IntPow(100 + interestRate, n), den |-> IntPow(100, n)]

\* calculateCompoundInterest, for a day count that is a whole number of
\* 365-day years (Math.pow is then rational).
\*   total = principal * num / den (mills);  interest = total - principal
calculateCompoundInterest(principal, startDate, endDate, rateArg) ==
    LET invalid == ValidateCompound(principal, startDate, endDate) IN
    IF invalid /= <<>> THEN invalid[1]
    ELSE
      LET interestRate == InterestRate(rateArg)
          totalDays    == TotalDays(startDate, endDate)
          pow          == PowYears(interestRate, totalDays \div 365)
          totalNum     == principal * pow.num
          interestNum  == totalNum - principal * pow.den
      IN  [principal    |-> principal,
           startDate    |-> startDate,
           endDate      |-> endDate,
           days         |-> totalDays,
           years        |-> MathRound(totalDays * 100, 365),
           interestRate |-> interestRate,
           interest     |-> MillsPerRappen *
                              MathRound(interestNum, MillsPerRappen * pow.den),
           total        |-> MillsPerRappen *
                              MathRound(totalNum, MillsPerRappen * pow.den),
           method       |-> "compound (annual)"]

---------------------------------------------------------------------------
(* The calls under test.                                                   *)

NotCalled == [pending |-> TRUE]

MsSamples   == {0, 1, msPerDay \div 2}
DaySamples  == (0 .. MaxDay) \cup {30, 31, 365, 366, 730}
StartDates  == [day : 0 .. 1, ms : MsSamples]
EndDates    == [day : DaySamples, ms : MsSamples]
\* -1000.000, 0, 0.005, 0.006, 36.000, 100.106 and 180.000 francs
Principals  == {-1000000, 0, 5, 6, 36000, 100106, 180000}
RateArgs    == {<<>>} \cup {<<r>> : r \in {-1, 0, 5, 8}}
Inputs      == [principal : Principals, startDate : StartDates,
                endDate : EndDates, rateArg : RateArgs]

\* The inputs on which calculateCompoundInterest is modelled: those failing
\* validation and those spanning a whole number of 365-day years.
WholeYears(a) ==
    \/ a.principal <= 0
    \/ DateGE(a.startDate, a.endDate)
    \/ TotalDays(a.startDate, a.endDate) % 365 = 0

CallDefault ==
    /\ resDefault = NotCalled
    /\ resDefault' = calculateDefaultInterest(args.principal, args.startDate,
                                              args.endDate, args.rateArg)
    /\ UNCHANGED <<args, resCompound, resLater>>
    /\ UNCHANGED buildVars

CallCompound ==
    /\ resCompound = NotCalled
    /\ WholeYears(args)
    /\ resCompound' = calculateCompoundInterest(args.principal, args.startDate,
                                                args.endDate, args.rateArg)
    /\ UNCHANGED <<args, resDefault, resLater>>
    /\ UNCHANGED buildVars

\* The packager is not running while the interest functions are under test.
BuildIdle ==
    /\ fs = <<>>
    /\ tpl = <<>>
    /\ outDirExists = FALSE
    /\ htmlFiles = <<>>
    /\ zipFiles = <<>>
    /\ results = <<>>
    /\ ti = 1
    /\ li = 1
    /\ html = [null |-> TRUE]
    /\ pc = "idle"
    /\ summary = <<>>
    /\ log = <<>>
    /\ written = {}

InitCalc ==
    /\ args \in Inputs
    /\ resDefault = NotCalled
    /\ resCompound = NotCalled
    /\ resLater = NotCalled
    /\ BuildIdle

NextCalc == CallDefault \/ CallCompound

SpecCalc == InitCalc /\ [][NextCalc]_vars

\* Two calls of calculateDefaultInterest that differ in the end date only:
\* args.endDate and the later (or equal) args.laterEnd.
MonoInputs ==
    {a \in [principal : {0, 5, 36000, 100106, 180000}, startDate : StartDates,
            endDate : EndDates, laterEnd : EndDates, rateArg : RateArgs] :
        DateGE(a.laterEnd, a.endDate)}

InitMono ==
    /\ args \in MonoInputs
    /\ resDefault = NotCalled
    /\ resCompound = NotCalled
    /\ resLater = NotCalled
    /\ BuildIdle

CallEarlier ==
    /\ resDefault = NotCalled
    /\ resDefault' = calculateDefaultInterest(args.principal, args.startDate,
                                              args.endDate, args.rateArg)
    /\ UNCHANGED <<args, resCompound, resLater>>
    /\ UNCHANGED buildVars

CallLater ==
    /\ resLater = NotCalled
    /\ resLater' = calculateDefaultInterest(args.principal, args.startDate,
                                            args.laterEnd, args.rateArg)
    /\ UNCHANGED <<args, resDefault, resCompound>>
    /\ UNCHANGED buildVars

NextMono == CallEarlier \/ CallLater

SpecMono == InitMono /\ [][NextMono]_vars

---------------------------------------------------------------------------
(* offline-bundle/build-all-offline.js                                     *)
(*                                                                         *)
(* A file is "missing", "empty" (it exists and holds no text) or "text";   *)
(* the text of a file is named by its path.  A path under BUNDLE_DIR       *)
(* starts with offline-bundle/.  An output file is named by the pair       *)
(* <<tool id, lang>> of `${tool.id}-offline-${lang}.html` / `.zip`.  The    *)
(* display names and titles of TOOLS take part in no decision and are left *)
(* out.                                                                    *)

TOOLS ==
    << [id       |-> "verzugszinsrechner",
        htmlFile |-> [de |-> "de/index.html", fr |-> "fr/index.html"],
        scripts  |-> <<"scripts/utils.js", "scripts/calculations.js",
                       "scripts/app.js", "scripts/pdf-export.js">>],
       [id       |-> "mahnrechner",
        htmlFile |-> [de |-> "de/mahnrechner.html", fr |-> "fr/mahnrechner.html"],
        scripts  |-> <<"scripts/utils.js", "scripts/calculations.js",
                       "scripts/pdf-export.js">>] >>

LANGUAGES == <<"de", "fr">>

NullHTML == [null |-> TRUE]

\* fs.readFileSync(path, 'utf8') of an existing file.
FileText(files, path) == IF files[path] = "text" THEN path ELSE ""

\* getFontBase64: <<>> is null, <<s>> the string s.  The base64 text of a
\* file is named b64(<path>); that of an empty file is the empty string.
getFontBase64(files, fontFile) ==
    LET fontPath == [regular |-> "offline-bundle/economica-regular.ttf",
                     bold    |-> "offline-bundle/economica-bold.ttf"][fontFile]
        base64   == [regular |-> "b64(economica-regular.ttf)",
                     bold    |-> "b64(economica-bold.ttf)"][fontFile]
    IN  IF files[fontPath] = "missing" THEN <<>>
        ELSE <<IF FileText(files, fontPath) = "" THEN "" ELSE base64>>

\* readFile(relativePath): relative to PROJECT_DIR.
readFile(files, relativePath) ==
    IF files[relativePath] = "missing" THEN "" ELSE FileText(files, relativePath)

\* readBundleFile(filename): relative to BUNDLE_DIR.
readBundleFile(files, filename) ==
    LET filePath == [css   |-> "offline-bundle/flatpickr.min.css",
                     js    |-> "offline-bundle/flatpickr.min.js",
                     jspdf |-> "offline-bundle/jspdf.min.js"][filename]
    IN  IF files[filePath] = "missing" THEN "" ELSE FileText(files, filePath)

\* !x of a value that is null or a string.
Falsy(opt) == opt = <<>> \/ opt[1] = ""

\* generateFontCSS: the placeholder comment, or the two @font-face rules.
generateFontCSS(files) ==
    LET regularBase64 == getFontBase64(files, "regular")
        boldBase64    == getFontBase64(files, "bold")
    IN  IF Falsy(regularBase64) \/ Falsy(boldBase64)
        THEN <<"/* Fonts not available */">>
        ELSE <<"@font-face 400", regularBase64[1], "@font-face 700", boldBase64[1]>>

RECURSIVE ScriptsJS(_, _, _)
\* Lines 132-135: scriptsJS += readFile(script) + '\n' over tool.scripts.
ScriptsJS(files, scripts, i) ==
    IF i > Len(scripts) THEN <<>>
    ELSE <<readFile(files, scripts[i]), "\n">> \o ScriptsJS(files, scripts, i + 1)

\* The text of a template is a sequence of tokens: the tags the patterns
\* of buildOfflineHTML tell apart, and the text between them.
ScriptOpen   == "<script>"               \* a script start tag without attributes
ScriptSrc    == "<script src=\"...\">"   \* a start tag with a double-quoted src
ScriptAttr   == "<script type=\"...\">"  \* a start tag with attributes, no src
ScriptClose  == "</script>"
BodyOpen     == "<body>"
BodyClose    == "</body>"
Container    == "<div class=\"container\">"
Blank        == " "                      \* white space only
JsonLd       == "{ \"@context\": ... }"  \* text that contains @context
BannerHTML   == "<div class=\"offline-banner\">...</div>"

\* The first index >= pos of t that holds one of toks, or 0.
IndexFrom(t, toks, pos) ==
    IF \E i \in pos .. Len(t) : t[i] \in toks
    THEN CHOOSE i \in pos .. Len(t) :
            t[i] \in toks /\ \A j \in pos .. (i - 1) : t[j] \notin toks
    ELSE 0

RECURSIVE InlineMatches(_, _)
\* The matches of /<script>[\s\S]*?<\/script>/gi in t from pos on, each as
\* [from, to]: the next <script>, up to the first </script> after it.
InlineMatches(t, pos) ==
    LET i == IndexFrom(t, {ScriptOpen}, pos)
        j == IF i = 0 THEN 0 ELSE IndexFrom(t, {ScriptClose}, i + 1)
    IN  IF i = 0 \/ j = 0 THEN <<>>
        ELSE <<[from |-> i, to |-> j]>> \o InlineMatches(t, j + 1)

\* match.replace(/<\/?script>/gi, ''): the match without its script tags.
MatchContent(t, m) ==
    SelectSeq(SubSeq(t, m.from, m.to),
              LAMBDA x : x \notin {ScriptOpen, ScriptClose})

\* content.trim() is not empty.
TrimNonEmpty(content) == \E i \in DOMAIN content : content[i] /= Blank
\* content.includes('@context').
IncludesContext(content) == \E i \in DOMAIN content : content[i] = JsonLd

RECURSIVE CollectScripts(_, _, _)
\* Lines 171-180: inlineScripts += content + '\n' for the matches whose
\* content is not blank and does not include @context.
CollectScripts(t, matches, i) ==
    IF i > Len(matches) THEN <<>>
    ELSE LET content == MatchContent(t, matches[i])
         IN  (IF TrimNonEmpty(content) /\ ~IncludesContext(content)
              THEN <<content \o <<"\n">> >> ELSE <<>>)
             \o CollectScripts(t, matches, i + 1)

InlineScripts(htmlText) == CollectScripts(htmlText, InlineMatches(htmlText, 1), 1)

\* Line 205: /<body[^>]*>([\s\S]*)<\/body>/i, the text between the first
\* <body> and the last </body> after it; <<>> is no match, <<text>> a match.
BodyMatch(htmlText) ==
    LET b == IndexFrom(htmlText, {BodyOpen}, 1)
        ends == IF b = 0 THEN {}
                ELSE {i \in (b + 1) .. Len(htmlText) : htmlText[i] = BodyClose}
    IN  IF ends = {} THEN <<>>
        ELSE <<SubSeq(htmlText, b + 1,
                      (CHOOSE e \in ends : \A x \in ends : x <= e) - 1)>>

RECURSIVE StripExternal(_)
\* Line 210: replace(/<script[^>]*src="[^"]*"[^>]*><\/script>/gi, ''): a
\* start tag with a double-quoted src and the end tag right after it.
StripExternal(t) ==
    IF t = <<>> THEN <<>>
    ELSE IF Len(t) >= 2 /\ t[1] = ScriptSrc /\ t[2] = ScriptClose
         THEN StripExternal(SubSeq(t, 3, Len(t)))
         ELSE <<t[1]>> \o StripExternal(Tail(t))

\* Line 211: replace(/<script>[\s\S]*?<\/script>/gi, '').
StripInline(t) ==
    LET ms == InlineMatches(t, 1)
        cut == {i \in DOMAIN t : \E k \in DOMAIN ms : ms[k].from <= i /\ i <= ms[k].to}
        F[i \in 0 .. Len(t)] ==
            IF i = 0 THEN <<>>
            ELSE IF i \in cut THEN F[i - 1] ELSE Append(F[i - 1], t[i])
    IN  F[Len(t)]

\* Lines 227-237: the banner goes right after the first container start tag,
\* or in front of the body when there is none.
AddBanner(bodyContent) ==
    LET c == IndexFrom(bodyContent, {Container}, 1)
    IN  IF c /= 0
        THEN SubSeq(bodyContent, 1, c) \o <<BannerHTML>>
               \o SubSeq(bodyContent, c + 1, Len(bodyContent))
        ELSE <<BannerHTML>> \o bodyContent

\* Lines 205-240: what the document holds between <body> and the combined
\* script block.  The replacements of lines 212-224 (link tags, language
\* switcher, navigation, hrefs, favicon) rewrite text that the tokens hold as
\* markup, and leave the tokens as they are.
RewrittenBody(htmlText) ==
    LET bodyMatch == BodyMatch(htmlText)
    IN  IF bodyMatch = <<>> THEN <<>>
        ELSE AddBanner(StripInline(StripExternal(bodyMatch[1])))

\* The text of the template file whose text readFile returned.
TemplateText(htmlTemplate) == tpl[htmlTemplate]

\* Lines 127-249 of buildOfflineHTML: the document.  It is held by its
\* parts: the parts of the combined <style> block and of the combined
\* <script> block in order (the last part of each, the inline styles and the
\* inline scripts, by name), the template, the rewritten body and the inline
\* scripts that make up the last part of the <script> block.
Document(files, tool, lang, htmlTemplate) ==
    LET stylesCSS    == readFile(files, "css/styles.css")
        flatpickrCSS == readBundleFile(files, "css")
        flatpickrJS  == readBundleFile(files, "js")
        jspdfJS      == readBundleFile(files, "jspdf")
        scriptsJS    == ScriptsJS(files, tool.scripts, 1)
        fontCSS      == generateFontCSS(files)
    IN  [lang     |-> lang,
         template |-> htmlTemplate,
         css      |-> fontCSS \o <<"fontAwesomeCSS", flatpickrCSS, stylesCSS,
                                   "inlineStyles", ".offline-banner">>,
         body     |-> RewrittenBody(TemplateText(htmlTemplate)),
         js       |-> <<jspdfJS, flatpickrJS>> \o scriptsJS \o <<"inlineScripts">>,
         inlineScripts |-> InlineScripts(TemplateText(htmlTemplate))]

\* Mutant of buildOfflineHTML: a missing or empty shared stylesheet aborts too.
buildOfflineHTMLNeedsStyles(files, tool, lang) ==
    LET htmlTemplate == readFile(files, tool.htmlFile[lang]) IN
    IF htmlTemplate = "" \/ readFile(files, "css/styles.css") = "" THEN NullHTML
    ELSE Document(files, tool, lang, htmlTemplate)

\* buildOfflineHTML(tool, lang): null (lines 121-125), or the document.
buildOfflineHTML(files, tool, lang) ==
    LET htmlTemplate == readFile(files, tool.htmlFile[lang]) IN
    IF htmlTemplate = "" THEN NullHTML
    ELSE Document(files, tool, lang, htmlTemplate)

\* zipStats.size of the archive of a document: grows with the text inlined.
ZipSize(doc) ==
    1 + Cardinality({i \in DOMAIN doc.css : doc.css[i] /= ""})
      + Cardinality({i \in DOMAIN doc.js : doc.js[i] /= ""})

TemplateFiles == {TOOLS[t].htmlFile[l] : t \in DOMAIN TOOLS, l \in {"de", "fr"}}
AssetFiles ==
    {"css/styles.css", "scripts/utils.js", "scripts/calculations.js",
     "scripts/app.js", "scripts/pdf-export.js",
     "offline-bundle/flatpickr.min.css", "offline-bundle/flatpickr.min.js",
     "offline-bundle/jspdf.min.js", "offline-bundle/economica-regular.ttf",
     "offline-bundle/economica-bold.ttf"}

\* The assets: all there, all missing, or one of them missing or empty.
AssetStates ==
    {[f \in AssetFiles |-> "text"], [f \in AssetFiles |-> "missing"]}
    \cup {[f \in AssetFiles |-> IF f = g THEN st ELSE "text"] :
            g \in AssetFiles, st \in {"missing", "empty"}}

\* The text the template files hold while the packager is run: structured
\* data and an inline script in the head; a container, an external script and
\* an inline script in the body.
SampleTemplate ==
    <<ScriptAttr, JsonLd, ScriptClose, ScriptOpen, "theme();", ScriptClose,
      BodyOpen, Container, "<p>", ScriptSrc, ScriptClose,
      ScriptOpen, "init();", ScriptClose, BodyClose>>

\* A document left in OUTPUT_DIR by an earlier run.
StaleDoc == [lang |-> "de", template |-> "stale", css |-> <<>>, body |-> <<>>,
             js |-> <<>>, inlineScripts |-> <<>>]
PairKeys == {<<TOOLS[t].id, LANGUAGES[l]>> : t \in DOMAIN TOOLS, l \in DOMAIN LANGUAGES}

Key == <<TOOLS[ti].id, LANGUAGES[li]>>

\* Without(f, k): the function f with k removed from its domain.
Without(f, k) == [x \in DOMAIN f \ {k} |-> f[x]]
\* With(f, k, v): the function f with k mapped to v.
With(f, k, v) == [x \in DOMAIN f \cup {k} |-> IF x = k THEN v ELSE f[x]]

CalcIdle ==
    /\ args = [principal |-> 0, startDate |-> [day |-> 0, ms |-> 0],
               endDate |-> [day |-> 0, ms |-> 0], rateArg |-> <<>>]
    /\ resDefault = NotCalled
    /\ resCompound = NotCalled
    /\ resLater = NotCalled

\* The process starts: any state of the input files; OUTPUT_DIR absent, empty,
\* or holding the archives and one intermediate file of an earlier run.
InitBuild ==
    /\ CalcIdle
    /\ \E t \in [TemplateFiles -> {"missing", "empty", "text"}], a \in AssetStates :
          fs = [f \in TemplateFiles \cup AssetFiles |->
                  IF f \in TemplateFiles THEN t[f] ELSE a[f]]
    /\ tpl = [f \in TemplateFiles |-> SampleTemplate]
    /\ \E out \in {"absent", "empty", "stale"} :
          /\ outDirExists = (out /= "absent")
          /\ zipFiles = IF out = "stale"
                        THEN [k \in PairKeys |-> [of |-> StaleDoc, size |-> 1]]
                        ELSE <<>>
          /\ htmlFiles = IF out = "stale"
                         THEN [k \in {<<"mahnrechner", "de">>} |-> StaleDoc]
                         ELSE <<>>
    /\ results = <<>>
    /\ ti = 1
    /\ li = 1
    /\ html = NullHTML
    /\ pc = "start"
    /\ summary = <<>>
    /\ log = <<>>
    /\ written = {}

\* Lines 263-271: OUTPUT_DIR is created when absent; the loops begin.
Start ==
    /\ pc = "start"
    /\ outDirExists' = TRUE
    /\ results' = <<>>
    /\ ti' = 1
    /\ li' = 1
    /\ pc' = "bundle"
    /\ UNCHANGED <<fs, tpl, htmlFiles, zipFiles, html, summary, log, written>>
    /\ UNCHANGED calcVars

\* Mutant of Continue: a failed pair ends the inner loop (break for continue).
ContinueBreaks ==
    /\ li' = 1
    /\ ti' = ti + 1
    /\ pc' = IF ti = Len(TOOLS) THEN "summary" ELSE "bundle"

\* The end of one iteration of the inner loop: the next language, or the
\* next tool and its first language, or the end of both loops.
Continue ==
    /\ li' = IF li < Len(LANGUAGES) THEN li + 1 ELSE 1
    /\ ti' = IF li < Len(LANGUAGES) THEN ti ELSE ti + 1
    /\ pc' = IF li = Len(LANGUAGES) /\ ti = Len(TOOLS) THEN "summary" ELSE "bundle"

\* Lines 273-282: buildOfflineHTML is called; null is recorded as a failure
\* and the loop continues.
Bundle ==
    /\ pc = "bundle"
    /\ LET doc == buildOfflineHTML(fs, TOOLS[ti], LANGUAGES[li]) IN
       /\ html' = doc
       /\ IF doc = NullHTML
          THEN /\ log' = log \o << <<"Building", Key[1], Key[2]>>,
                                   <<"ERROR: Could not read HTML template", Key[1], Key[2]>> >>
               /\ results' = Append(results,
                                [tool |-> Key[1], lang |-> Key[2], success |-> FALSE])
               /\ Continue
          ELSE /\ log' = Append(log, <<"Building", Key[1], Key[2]>>)
               /\ pc' = "write"
               /\ UNCHANGED <<results, ti, li>>
    /\ UNCHANGED <<fs, tpl, outDirExists, htmlFiles, zipFiles, summary, written>>
    /\ UNCHANGED calcVars

\* Line 284: fs.writeFileSync(htmlPath, html, 'utf8') returns.
WriteFile ==
    /\ pc = "write"
    /\ htmlFiles' = With(htmlFiles, Key, html)
    /\ written' = written \cup {Key}
    /\ pc' = "zip"
    /\ UNCHANGED <<fs, tpl, outDirExists, zipFiles, results, ti, li, html, summary, log>>
    /\ UNCHANGED calcVars

\* An fs call of lines 284, 288 or 291 throws: the exception leaves buildAll,
\* is caught at line 309, and the process exits with status 1.
Throw ==
    /\ pc \in {"write", "stat", "unlink"}
    /\ pc' = "failed"
    /\ UNCHANGED <<fs, tpl, outDirExists, htmlFiles, zipFiles, results, ti, li, html,
                   summary, log, written>>
    /\ UNCHANGED calcVars

\* Lines 285, 252-255: zip succeeds and createZip returns true.
ZipOk ==
    /\ pc = "zip"
    /\ zipFiles' = With(zipFiles, Key, [of |-> htmlFiles[Key], size |-> ZipSize(htmlFiles[Key])])
    /\ pc' = "stat"
    /\ UNCHANGED <<fs, tpl, outDirExists, htmlFiles, results, ti, li, html, summary, log,
                   written>>
    /\ UNCHANGED calcVars

\* Lines 285, 256-259, 292-294: zip fails, createZip returns false and the
\* pair is recorded as a failure.
ZipFails ==
    /\ pc = "zip"
    /\ log' = Append(log, <<"ERROR creating ZIP", Key[1], Key[2]>>)
    /\ results' = Append(results, [tool |-> Key[1], lang |-> Key[2], success |-> FALSE])
    /\ Continue
    /\ UNCHANGED <<fs, tpl, outDirExists, htmlFiles, zipFiles, html, summary, written>>
    /\ UNCHANGED calcVars

\* Lines 288-290: the archive's size is read and logged, the pair recorded.
StatAndRecord ==
    /\ pc = "stat"
    /\ log' = Append(log, <<"OK", Key[1], Key[2]>>)
    /\ results' = Append(results, [tool |-> Key[1], lang |-> Key[2], success |-> TRUE,
                                   zipSize |-> zipFiles[Key].size])
    /\ pc' = "unlink"
    /\ UNCHANGED <<fs, tpl, outDirExists, htmlFiles, zipFiles, ti, li, html, summary, written>>
    /\ UNCHANGED calcVars

\* Mutant of Unlink: the intermediate file is not deleted.
UnlinkKeepsFile ==
    /\ pc = "unlink"
    /\ Continue
    /\ UNCHANGED <<fs, tpl, outDirExists, htmlFiles, zipFiles, results, html, summary, log,
                   written>>
    /\ UNCHANGED calcVars

\* Line 291: fs.unlinkSync(htmlPath) returns.
Unlink ==
    /\ pc = "unlink"
    /\ htmlFiles' = Without(htmlFiles, Key)
    /\ Continue
    /\ UNCHANGED <<fs, tpl, outDirExists, zipFiles, results, html, summary, log, written>>
    /\ UNCHANGED calcVars

\* Lines 299-304: the summary is printed and results returned.
Summary ==
    /\ pc = "summary"
    /\ summary' = <<Cardinality({i \in DOMAIN results : results[i].success}),
                    Len(results)>>
    /\ pc' = "done"
    /\ UNCHANGED <<fs, tpl, outDirExists, htmlFiles, zipFiles, results, ti, li, html, log,
                   written>>
    /\ UNCHANGED calcVars

NextBuild ==
    \/ Start
    \/ Bundle
    \/ WriteFile
    \/ Throw
    \/ ZipOk
    \/ ZipFails
    \/ StatAndRecord
    \/ Unlink
    \/ Summary

SpecBuild == InitBuild /\ [][NextBuild]_vars

---------------------------------------------------------------------------
(* buildOfflineHTML called on its own, on templates of any make-up.        *)

\* The most elements a template holds.
MaxElems == 3

\* What a template is made of: markup, the container, an external script,
\* an inline script, an inline script of white space, structured data in a
\* <script> without attributes, structured data in a typed <script>, and an
\* inline script whose start tag has attributes.
ElemKinds == {"markup", "container", "external", "inline", "blank",
              "jsonld", "typedJsonld", "typedInline"}

\* The code of the inline script that is the k-th element of a template.
CodeText == <<"a();", "b();", "c();", "d();", "e();">>

ElemTokens(kind, k) ==
    CASE kind = "markup"      -> <<"<p>">>
      [] kind = "container"   -> <<Container>>
      [] kind = "external"    -> <<ScriptSrc, ScriptClose>>
      [] kind = "inline"      -> <<ScriptOpen, CodeText[k], ScriptClose>>
      [] kind = "blank"       -> <<ScriptOpen, Blank, ScriptClose>>
      [] kind = "jsonld"      -> <<ScriptOpen, JsonLd, ScriptClose>>
      [] kind = "typedJsonld" -> <<ScriptAttr, JsonLd, ScriptClose>>
      [] kind = "typedInline" -> <<ScriptAttr, CodeText[k], ScriptClose>>

RECURSIVE Flatten(_, _, _)
Flatten(kinds, from, to) ==
    IF from > to THEN <<>>
    ELSE ElemTokens(kinds[from], from) \o Flatten(kinds, from + 1, to)

\* A template: the first h elements in the head, the others in the body.
TemplateOf(kinds, h) ==
    Flatten(kinds, 1, h) \o <<BodyOpen>>
        \o Flatten(kinds, h + 1, Len(kinds)) \o <<BodyClose>>

Templates ==
    UNION {UNION {{TemplateOf(kinds, h) : h \in 0 .. n} :
                     kinds \in [1 .. n -> ElemKinds]} : n \in 0 .. MaxElems}

\* Before the call: a tool and a language, the tool's template of any
\* make-up, the assets all there or all missing.
InitTemplate ==
    /\ CalcIdle
    /\ ti \in DOMAIN TOOLS
    /\ li \in DOMAIN LANGUAGES
    /\ \E a \in {"text", "missing"} :
          fs = [f \in TemplateFiles \cup AssetFiles |->
                  IF f \in TemplateFiles THEN "text" ELSE a]
    /\ \E t \in Templates :
          tpl = [f \in TemplateFiles |->
                   IF f = TOOLS[ti].htmlFile[LANGUAGES[li]] THEN t
                   ELSE SampleTemplate]
    /\ outDirExists = FALSE
    /\ htmlFiles = <<>>
    /\ zipFiles = <<>>
    /\ results = <<>>
    /\ html = NullHTML
    /\ pc = "call"
    /\ summary = <<>>
    /\ log = <<>>
    /\ written = {}

\* Lines 118-250: buildOfflineHTML(tool, lang) returns.
CallBuildOfflineHTML ==
    /\ pc = "call"
    /\ html' = buildOfflineHTML(fs, TOOLS[ti], LANGUAGES[li])
    /\ pc' = "returned"
    /\ UNCHANGED <<calcVars, fs, tpl, outDirExists, htmlFiles, zipFiles,
                   results, ti, li, summary, log, written>>

NextTemplate == CallBuildOfflineHTML

SpecTemplate == InitTemplate /\ [][NextTemplate]_vars

---------------------------------------------------------------------------
(* Properties of the interest functions, checked under SpecCalc.           *)

IsError(r)   == "error" \in DOMAIN r
DefaultDone  == resDefault /= NotCalled
CompoundDone == resCompound /= NotCalled
ValidArgs    == args.principal > 0 /\ ~DateGE(args.startDate, args.endDate)
Abs(x)       == IF x < 0 THEN -x ELSE x

\* x (mills) is a whole number of Rappen and a nearest one to num / den mills.
NearestRappen(x, num, den) ==
    /\ x % MillsPerRappen = 0
    /\ 2 * Abs(den * x - num) <= den * MillsPerRappen

\* Rounding num / den Rappen half away from zero, in mills.
HalfAwayFromZero(num, den) ==
    LET m == (2 * Abs(num) + den) \div (2 * den)
    IN  MillsPerRappen * (IF num < 0 THEN -m ELSE m)

\* C1: for principal > 0 and endDate > startDate the returned interest is
\* principal * rate/100/360 * days rounded to 2 decimals (a nearest Rappen),
\* days being the returned day count.  In mills the unrounded interest is
\* principal * rate * days / 36000.
C1_InterestIsRoundedActual360 ==
    (DefaultDone /\ ValidArgs) =>
        /\ ~IsError(resDefault)
        /\ NearestRappen(resDefault.interest,
                         args.principal * InterestRate(args.rateArg) * resDefault.days,
                         36 * MillsPerFranc)

\* C1 witness: a call whose unrounded interest is not a whole Rappen
\* (100.106 francs, 5 %, 30 or more days) has returned.
C1_Witness ==
    /\ DefaultDone /\ ValidArgs
    /\ resDefault.days >= 30
    /\ (args.principal * InterestRate(args.rateArg) * resDefault.days)
          % (360 * MillsPerFranc) /= 0
    /\ resDefault.interest > 0

\* C2: for every non-error result of calculateDefaultInterest, total is the
\* echoed principal plus the returned interest, rounded to 2 decimals.
C2_TotalIsRoundedSum ==
    (DefaultDone /\ ~IsError(resDefault)) =>
        /\ resDefault.principal = args.principal
        /\ NearestRappen(resDefault.total,
                         resDefault.principal + resDefault.interest, 1)

\* C2 witness: a result whose principal has a third decimal, so that the sum
\* is not a whole Rappen and the rounding of the total acts.
C2_Witness ==
    /\ DefaultDone /\ ~IsError(resDefault)
    /\ resDefault.principal % MillsPerRappen /= 0
    /\ resDefault.interest > 0
    /\ resDefault.total /= resDefault.principal + resDefault.interest

\* C3: whenever principal <= 0 or startDate >= endDate, each function returns
\* a result that carries an error reason and no other field; the two
\* functions return an error on the same inputs, with the same reason.
C3_ErrorsAgree ==
    /\ (DefaultDone /\ ~ValidArgs) => DOMAIN resDefault = {"error"}
    /\ (CompoundDone /\ ~ValidArgs) => DOMAIN resCompound = {"error"}
    /\ (DefaultDone /\ ValidArgs) => ~IsError(resDefault)
    /\ (CompoundDone /\ ValidArgs) => ~IsError(resCompound)
    /\ (DefaultDone /\ CompoundDone) =>
          /\ IsError(resDefault) <=> IsError(resCompound)
          /\ IsError(resDefault) => resDefault = resCompound

\* C3 witness: both functions have been called with a positive principal
\* and equal dates, and both returned the date error.
C3_Witness ==
    /\ DefaultDone /\ CompoundDone
    /\ args.principal > 0 /\ args.startDate = args.endDate
    /\ resDefault = ErrDates /\ resCompound = ErrDates

\* C4: for every non-error result of calculateDefaultInterest, days is
\* floor((endDate - startDate) / 86400000):
\*   0 <= (endDate - startDate) - days * msPerDay < msPerDay,
\* so that instants one day apart give 1 and instants 31 days apart give 31.
C4_DaysIsFloorOfDifference ==
    (DefaultDone /\ ~IsError(resDefault)) =>
        LET s    == args.startDate
            e    == args.endDate
            rest == (e.day - s.day - resDefault.days) * msPerDay + (e.ms - s.ms)
        IN  /\ 0 <= rest /\ rest < msPerDay
            /\ (e.ms = s.ms /\ e.day = s.day + 1) => resDefault.days = 1
            /\ (e.ms = s.ms /\ e.day = s.day + 31) => resDefault.days = 31

\* C4 witness: a result for an end date whose time of day is earlier than the
\* start date's, 31 calendar days later: 30 full days have elapsed.
C4_Witness ==
    /\ DefaultDone /\ ~IsError(resDefault)
    /\ args.endDate.day = args.startDate.day + 31
    /\ args.endDate.ms < args.startDate.ms
    /\ resDefault.days = 30

\* C5 (as claimed): interest and total of calculateDefaultInterest are each
\* rounded to 2 decimals half away from zero, for every input that passes
\* validation, a negative rate included.
C5_RoundsHalfAwayFromZero ==
    (DefaultDone /\ ~IsError(resDefault)) =>
        /\ resDefault.interest =
              HalfAwayFromZero(args.principal * resDefault.interestRate
                                 * resDefault.days, 360 * MillsPerFranc)
        /\ resDefault.total =
              HalfAwayFromZero(args.principal + resDefault.interest, MillsPerRappen)

\* C6 (as claimed): for every non-error result of calculateCompoundInterest,
\* total is principal + interest rounded to 2 decimals.
C6_CompoundTotalIsRoundedSum ==
    (CompoundDone /\ ~IsError(resCompound)) =>
        NearestRappen(resCompound.total,
                      resCompound.principal + resCompound.interest, 1)

---------------------------------------------------------------------------
(* Properties of the packager, checked under SpecBuild.                    *)

NumPairs    == Len(TOOLS) * Len(LANGUAGES)
\* The i-th pair of the product, tools outer and languages inner.
PairAt(i)   == <<TOOLS[((i - 1) \div Len(LANGUAGES)) + 1].id,
                 LANGUAGES[((i - 1) % Len(LANGUAGES)) + 1]>>
TemplateAt(i) == TOOLS[((i - 1) \div Len(LANGUAGES)) + 1]
                    .htmlFile[LANGUAGES[((i - 1) % Len(LANGUAGES)) + 1]]
Logged(kind, k) == \E j \in DOMAIN log : log[j] = <<kind, k[1], k[2]>>
\* The pairs buildOfflineHTML was called for, in call order.
Visited     == SelectSeq(log, LAMBDA e : e[1] = "Building")
Ended       == pc \in {"done", "failed"}
\* The pairs whose iteration has run to its end.
Processed   == IF pc \in {"summary", "done"} THEN 1 .. NumPairs
               ELSE 1 .. ((ti - 1) * Len(LANGUAGES) + li - 1)
BundledNull == "ERROR: Could not read HTML template"
ZipFailed   == "ERROR creating ZIP"

\* C7: a run of buildAll that returns has visited every (tool, language) pair
\* exactly once, tools outer and languages inner, and holds exactly one outcome
\* per pair in that order; a pair for which buildOfflineHTML returned null is
\* recorded as failed and the pairs after it are still visited.
C7_EveryPairOnceInOrder ==
    pc = "done" =>
        /\ Len(results) = NumPairs
        /\ Len(Visited) = NumPairs
        /\ \A i \in 1 .. NumPairs :
              /\ results[i].tool = PairAt(i)[1] /\ results[i].lang = PairAt(i)[2]
              /\ Visited[i] = <<"Building", PairAt(i)[1], PairAt(i)[2]>>
              /\ Logged(BundledNull, PairAt(i)) => ~results[i].success

\* C7 witness: a returned run whose first pair's bundling returned null and
\* whose second pair was packaged.
C7_Witness ==
    /\ pc = "done"
    /\ Logged(BundledNull, PairAt(1)) /\ ~results[1].success
    /\ results[2].success

\* C8 (as claimed): whatever fails while packaging one pair, every pair is
\* still bundled, and the summary's success count is the number of pairs that
\* were packaged.
C8_NoErrorAffectsOtherPairs ==
    Ended =>
        /\ \A i \in 1 .. NumPairs : Logged("Building", PairAt(i))
        /\ summary /= <<>>
        /\ summary[1] = Cardinality({i \in 1 .. NumPairs : Logged("OK", PairAt(i))})
        /\ summary[2] = NumPairs

\* C9: after a pair has been processed: if compression succeeded, the outcome
\* is a success with the archive's size, the archive exists and the
\* intermediate file is gone; if compression failed, the outcome is a failure
\* and the intermediate file is still there; if bundling returned null, the
\* outcome is a failure and no intermediate file was written.
C9_OutcomeMatchesDisk ==
    \A i \in Processed :
        LET k == PairAt(i)
            r == results[i]
        IN  /\ Logged("OK", k) \/ Logged(ZipFailed, k) \/ Logged(BundledNull, k)
            /\ Logged("OK", k) =>
                  /\ r.success /\ "zipSize" \in DOMAIN r
                  /\ k \in DOMAIN zipFiles /\ r.zipSize = zipFiles[k].size
                  /\ zipFiles[k].of = buildOfflineHTML(fs, TOOLS[((i - 1) \div Len(LANGUAGES)) + 1], k[2])
                  /\ k \notin DOMAIN htmlFiles
            /\ Logged(ZipFailed, k) =>
                  /\ ~r.success /\ "zipSize" \notin DOMAIN r
                  /\ k \in written
                  /\ k \in DOMAIN htmlFiles
                  /\ htmlFiles[k] = buildOfflineHTML(fs, TOOLS[((i - 1) \div Len(LANGUAGES)) + 1], k[2])
            /\ Logged(BundledNull, k) =>
                  /\ ~r.success /\ "zipSize" \notin DOMAIN r
                  /\ k \notin written

\* C9 witness: a returned run with one pair of each kind: packaged,
\* compression failed, bundling returned null.
C9_Witness ==
    /\ pc = "done"
    /\ \E i, j, n \in 1 .. NumPairs :
          /\ Logged("OK", PairAt(i)) /\ PairAt(i) \notin DOMAIN htmlFiles
          /\ Logged(ZipFailed, PairAt(j)) /\ PairAt(j) \in DOMAIN htmlFiles
          /\ Logged(BundledNull, PairAt(n))

\* The template file of the last call of buildOfflineHTML.
LastTemplate ==
    LET e == Visited[Len(Visited)]
        i == CHOOSE j \in 1 .. NumPairs : PairAt(j) = <<e[2], e[3]>>
    IN  TemplateAt(i)
FontsMissing ==
    \/ fs["offline-bundle/economica-regular.ttf"] /= "text"
    \/ fs["offline-bundle/economica-bold.ttf"] /= "text"

\* What a missing asset leaves in a returned document: an empty string, or
\* the placeholder comment for the fonts.
MissingAssetsReplaced(doc) ==
    /\ FontsMissing <=> doc.css[1] = "/* Fonts not available */"
    /\ fs["css/styles.css"] /= "text" <=> doc.css[Len(doc.css) - 2] = ""
    /\ fs["offline-bundle/flatpickr.min.css"] /= "text" <=> doc.css[Len(doc.css) - 3] = ""
    /\ fs["offline-bundle/jspdf.min.js"] /= "text" <=> doc.js[1] = ""
    /\ fs["offline-bundle/flatpickr.min.js"] /= "text" <=> doc.js[2] = ""
    /\ fs["scripts/utils.js"] /= "text" <=> doc.js[3] = ""
    /\ fs["scripts/calculations.js"] /= "text" <=> doc.js[5] = ""

\* C10 (as claimed): buildOfflineHTML returns null exactly when the template
\* file is missing.
C10_NullIffTemplateMissing ==
    Visited /= <<>> => (html = NullHTML <=> fs[LastTemplate] = "missing")

\* C10 (amended): buildOfflineHTML returns null exactly when the template
\* file is missing or empty; a missing stylesheet, font, vendored library or
\* application script never makes it return null: the document is returned
\* with an empty string or the placeholder comment in its place.
C10_NullIffTemplateMissingOrEmpty ==
    Visited /= <<>> =>
        /\ html = NullHTML <=> fs[LastTemplate] \in {"missing", "empty"}
        /\ html /= NullHTML => MissingAssetsReplaced(html)

\* C10 witness: with every asset missing, a call for an empty template has
\* returned null and the last call, for a template with text, a document.
C10_Witness ==
    /\ Visited /= <<>>
    /\ \A f \in AssetFiles : fs[f] = "missing"
    /\ html /= NullHTML
    /\ \E i \in 1 .. NumPairs :
          fs[TemplateAt(i)] = "empty" /\ Logged(BundledNull, PairAt(i))

---------------------------------------------------------------------------
(* Properties of the document of one template, under SpecTemplate.         *)

ScriptStartTags == {ScriptOpen, ScriptAttr, ScriptSrc}

RECURSIVE ScriptElements(_, _)
\* The script elements of t from pos on, in order: a start tag of any kind,
\* the text up to its end tag, and the end tag.
ScriptElements(t, pos) ==
    LET i == IndexFrom(t, ScriptStartTags, pos)
        j == IF i = 0 THEN 0 ELSE IndexFrom(t, {ScriptClose}, i + 1)
    IN  IF i = 0 \/ j = 0 THEN <<>>
        ELSE <<[tag |-> t[i], content |-> SubSeq(t, i + 1, j - 1)]>>
               \o ScriptElements(t, j + 1)

\* The inline scripts of t that are to be carried over: no src, a content
\* that is more than white space and holds no @context.
CarriedOver(t) ==
    SelectSeq(ScriptElements(t, 1),
              LAMBDA e : /\ e.tag /= ScriptSrc
                         /\ \E k \in DOMAIN e.content : e.content[k] /= Blank
                         /\ \A k \in DOMAIN e.content : e.content[k] /= JsonLd)

\* The document doc of template text t: no script tag is left in the body;
\* the inline scripts of the combined block are the carried-over ones, once
\* each and in template order (each ends with a line break); the block holds
\* the PDF library, the date-picker script, the application scripts in
\* declared order and the inline scripts last.
ScriptsMoved(t, doc, tool) ==
    /\ \A i \in DOMAIN doc.body :
          doc.body[i] \notin ScriptStartTags \cup {ScriptClose}
    /\ Len(doc.inlineScripts) = Len(CarriedOver(t))
    /\ \A i \in DOMAIN doc.inlineScripts :
          doc.inlineScripts[i] = CarriedOver(t)[i].content \o <<"\n">>
    /\ Len(doc.js) = 2 * Len(tool.scripts) + 3
    /\ doc.js[1] = readBundleFile(fs, "jspdf")
    /\ doc.js[2] = readBundleFile(fs, "js")
    /\ \A i \in DOMAIN tool.scripts :
          doc.js[2 * i + 1] = readFile(fs, tool.scripts[i])
    /\ doc.js[Len(doc.js)] = "inlineScripts"

Returned == pc = "returned" /\ html /= NullHTML

\* C11: in the document returned by buildOfflineHTML the rewritten body holds
\* none of the template's script elements, external or inline, and every
\* inline script of the template whose content is not empty and does not
\* contain @context appears exactly once, in template order, in the combined
\* script block, after the PDF library, the date-picker script and the
\* application scripts in declared order; those with @context do not.
C11_ScriptsStrippedAndReinjected ==
    Returned => ScriptsMoved(tpl[html.template], html, TOOLS[ti])

\* The same for the templates none of whose script start tags has attributes
\* other than src: there the code does what C11 says.
ScriptsMovedWhenTagsPlain ==
    (Returned /\ \A i \in DOMAIN tpl[html.template] :
                    tpl[html.template][i] /= ScriptAttr)
        => ScriptsMoved(tpl[html.template], html, TOOLS[ti])

\* A template of the kind C11 fails on has been put through the call: an
\* inline script with a typed start tag in the body.
TypedScriptInBody ==
    /\ Returned
    /\ \E i \in DOMAIN html.body : html.body[i] = ScriptAttr

---------------------------------------------------------------------------
(* Properties of two calls that differ in the end date, under SpecMono.    *)

\* C12: for principal > 0, a rate >= 0 and two end dates e1 <= e2 after the
\* start date, neither call returns an error, the interest is never negative,
\* interest(e1) <= interest(e2) and total(e1) <= total(e2); an e1 less than a
\* full day after the start date gives days = 0 and interest = 0.
C12_InterestMonotoneInEndDate ==
    (/\ resDefault /= NotCalled /\ resLater /= NotCalled
     /\ args.principal > 0
     /\ InterestRate(args.rateArg) >= 0
     /\ ~DateGE(args.startDate, args.endDate)) =>
        /\ ~IsError(resDefault) /\ ~IsError(resLater)
        /\ 0 <= resDefault.interest
        /\ resDefault.interest <= resLater.interest
        /\ resDefault.total <= resLater.total
        /\ resDefault.days <= resLater.days
        /\ (args.endDate.day = args.startDate.day
              \/ (args.endDate.day = args.startDate.day + 1
                    /\ args.endDate.ms < args.startDate.ms)) =>
              (resDefault.days = 0 /\ resDefault.interest = 0)

\* C12 witness: the earlier end date is less than a day after the start date
\* (no days, no interest, no error) and the later one earns interest.
C12_Witness ==
    /\ resDefault /= NotCalled /\ resLater /= NotCalled
    /\ args.principal > 0 /\ InterestRate(args.rateArg) > 0
    /\ ~DateGE(args.startDate, args.endDate)
    /\ ~IsError(resDefault)
    /\ resDefault.days = 0 /\ resDefault.interest = 0
    /\ resLater.days >= 365
    /\ resLater.interest > 0 /\ resLater.total > resDefault.total

===========================================================================
